---------------------------- MODULE Spec2Model ----------------------------
(***************************************************************************)
(* polypath: the .obj parser (src/src/parse.rs), the geometry store's     *)
(* flattening operations (src/src/obj.rs), the bounding sphere             *)
(* (src/src/bounding.rs), the meshlet builder (src/src/meshlet.rs) and the *)
(* vertex-order optimizer (src/src/opt.rs), each as a state machine with   *)
(* its own specification.                                                  *)
(*                                                                         *)
(* Representation                                                          *)
(*   Option<T>   a sequence of length <= 1: None == <<>>, Some(x) == <<x>> *)
(*   f32         its bit pattern <<sign, exponent, mantissa>>              *)
(*   u32         two 16-bit limbs <<hi, lo>> (the value is hi*65536 + lo)  *)
(*   a line      [kind, toks]: the leading token and the remaining         *)
(*               whitespace-separated tokens                               *)
(*   a corner    the sequence of its '/'-separated fields                  *)
(***************************************************************************)
EXTENDS Integers, Sequences, FiniteSets, TLC

VARIABLES
    verticies,        \* Vec<(f32, f32, f32)>
    vertex_colors,    \* Vec<(f32, f32, f32)>
    vertex_normals,   \* Vec<(f32, f32, f32)>
    texture_coords,   \* Vec<(f32, f32)>
    faces,            \* Vec<FaceData>
    groups,           \* Vec<GroupingData>
    objects,          \* Vec<GroupingData>
    current_group,    \* GroupingData
    current_object,   \* GroupingData
    nread,            \* lines consumed from the reader
    pc,               \* "parsing" | "parsed" | "error" | "panic"
    err,              \* the Error returned by parse, if any
    flat,             \* the call of verticies(): status and result
    indexed,          \* the call of verticies_indexed(): status, locals, result
    \* build_bounding_sphere (src/src/bounding.rs)
    points,           \* the argument `vertices`: a sequence of points
    sphere,           \* Option<Sphere>: the value returned
    spc,              \* "idle", "called", "done"
    \* build_meshlets (src/src/meshlet.rs)
    VERTEX_COUNT,     \* the const generic VERTEX_COUNT
    TRIANGLE_COUNT,   \* the const generic TRIANGLE_COUNT
    VertexBuffer,     \* the argument `vertices`: positions, 0-based
    indices,          \* the argument `indices`
    cone_threshold,   \* the argument `cone_threshold`, in tenths
    next_face,        \* faces of chunks_exact(3) consumed so far
    meshlet,          \* the in-progress Meshlet
    meshlets,         \* Vec<Meshlet>
    contained,        \* Vec<i32>: the local slot of each source vertex
    current_vertices, \* Vec<(f32, f32, f32)>
    current_normals,  \* Vec<Vec3>
    mpc,              \* "idle" | "called" | "loop" | "done" | "panic"
    debug_build,      \* cfg!(debug_assertions), with overflow checks
    \* optimize_vertex_order (src/src/opt.rs)
    stream,           \* the argument `vertices` as it was passed
    vertices,         \* the argument `vertices`, popped from the back
    new_vertices,     \* Vec<VertexTextureData>: the value returned
    current_faces,    \* HashSet<[VertexTextureData; 3]>
    adjacency,        \* HashMap<VertexTextureData, HashSet<[..; 3]>>
    stack,            \* Vec<VertexTextureData>
    current,          \* Option<VertexTextureData>: the vertex being visited
    opc               \* "idle" | "called" | "loop" | "done" | "panic"

parse_vars == <<verticies, vertex_colors, vertex_normals, texture_coords,
                faces, groups, objects, current_group, current_object, nread,
                pc, err, flat, indexed>>

sphere_vars == <<points, sphere, spc>>

meshlet_args == <<VERTEX_COUNT, TRIANGLE_COUNT, VertexBuffer, indices,
                   cone_threshold>>

meshlet_vars == <<meshlet_args, next_face, meshlet, meshlets, contained,
                  current_vertices, current_normals, mpc, debug_build>>

opt_vars == <<stream, vertices, new_vertices, current_faces, adjacency, stack,
              current, opc>>

vars == <<parse_vars, sphere_vars, meshlet_vars, opt_vars>>

store == <<verticies, vertex_colors, vertex_normals, texture_coords, faces,
           groups, objects, current_group, current_object>>

-----------------------------------------------------------------------------
(* Bounds of the model *)

\* lines read from the input before it ends
MaxLines == 4

\* points given to build_bounding_sphere
MaxPoints == 3

\* faces in the index buffer given to build_meshlets
MaxFaces == 4

\* triangles in the vertex stream given to optimize_vertex_order
MaxTriangles == 3

\* the const generics of build_meshlets, the capacities of a meshlet, in
\* the calls on small index buffers
MaxVertexCount == 4
MaxTriangleCount == 3

\* triangles in the longest strip given to build_meshlets
MaxStrip == 254

-----------------------------------------------------------------------------
(* Option, f32, u32 *)

None == <<>>
Some(x) == <<x>>
IsSome(o) == o # <<>>
Unwrap(o) == o[1]

\* f32 bit patterns
PZero == <<0, 0, 0>>
NZero == <<1, 0, 0>>
One == <<0, 127, 0>>
QNaN == <<0, 255, 4194304>>

\* f32::to_ne_bytes on a little-endian target: the four bytes, lowest first
to_ne_bytes(f) ==
    <<f[3] % 256,
      (f[3] \div 256) % 256,
      (f[2] % 2) * 128 + (f[3] \div 65536),
      f[1] * 128 + (f[2] \div 2)>>

\* f32::from_ne_bytes
from_ne_bytes(b) ==
    <<b[4] \div 128,
      (b[4] % 128) * 2 + (b[3] \div 128),
      (b[3] % 128) * 65536 + b[2] * 256 + b[1]>>

\* f32's PartialEq: NaN differs from everything, the two zeros are equal
f32_eq(a, b) ==
    LET nan(x) == x[2] = 255 /\ x[3] # 0
        zero(x) == x[2] = 0 /\ x[3] = 0
    IN  /\ ~nan(a)
        /\ ~nan(b)
        /\ (a = b \/ (zero(a) /\ zero(b)))

\* `x as u32` for an i32 x: the two's complement bit pattern, as two limbs
as_u32(x) ==
    IF x >= 0
    THEN <<x \div 65536, x % 65536>>
    ELSE LET y == (x + 2147483647) + 1
         IN  <<32768 + (y \div 65536), y % 65536>>

\* slice[u as usize - 1] is inside the slice (u = 0 underflows or wraps)
in_bounds(u, slice) == u[1] = 0 /\ u[2] >= 1 /\ u[2] <= Len(slice)

\* slice[u as usize - 1], for an index inside the slice
at(slice, u) == slice[u[2]]

-----------------------------------------------------------------------------
(* Results: Ok(v), Err(e) and a panic (unreachable!, todo!, unwrap on None) *)

Ok(v) == [tag |-> "Ok", val |-> v]
Err(e) == [tag |-> "Err", val |-> e]
Panicked(m) == [tag |-> "Panic", val |-> m]

\* tokens of a line
NumTok(f) == [t |-> "num", v |-> f]
JunkNum == [t |-> "junk", v |-> PZero]
IntField(i) == [t |-> "int", v |-> i]
EmptyField == [t |-> "empty", v |-> 0]
JunkField == [t |-> "junk", v |-> 0]

\* split.next().ok_or(eol)?  then  str.parse::<f32>()?
next_f32(toks, k, eol) ==
    IF Len(toks) < k THEN Err(<<eol>>)
    ELSE IF toks[k].t # "num" THEN Err(<<"ParseF">>)
    ELSE Ok(toks[k].v)

parse_vertex(toks) ==
    LET x == next_f32(toks, 1, "UnexpectedEoL")
        y == next_f32(toks, 2, "UnexpectedEoL")
        z == next_f32(toks, 3, "UnexpectedEoL")
        a == next_f32(toks, 4, "UnexpectedEoL")
        b == next_f32(toks, 5, "NonUniformColors")
        c == next_f32(toks, 6, "NonUniformColors")
    IN  IF x.tag # "Ok" THEN x
        ELSE IF y.tag # "Ok" THEN y
        ELSE IF z.tag # "Ok" THEN z
        ELSE IF Len(toks) >= 4
        THEN IF a.tag # "Ok" THEN a
             ELSE IF b.tag # "Ok" THEN b
             ELSE IF c.tag # "Ok" THEN c
             ELSE Ok([position |-> <<x.val, y.val, z.val>>,
                      color |-> Some(<<a.val, b.val, c.val>>)])
        ELSE Ok([position |-> <<x.val, y.val, z.val>>, color |-> None])

parse_normal(toks) ==
    LET x == next_f32(toks, 1, "UnexpectedEoL")
        y == next_f32(toks, 2, "UnexpectedEoL")
        z == next_f32(toks, 3, "UnexpectedEoL")
    IN  IF x.tag # "Ok" THEN x
        ELSE IF y.tag # "Ok" THEN y
        ELSE IF z.tag # "Ok" THEN z
        ELSE Ok(<<x.val, y.val, z.val>>)

parse_texture_coord(toks) ==
    LET x == next_f32(toks, 1, "UnexpectedEoL")
        y == next_f32(toks, 2, "UnexpectedEoL")
    IN  IF x.tag # "Ok" THEN x
        ELSE IF y.tag # "Ok" THEN y
        ELSE Ok(<<x.val, y.val>>)

\* a parsed i32 index against the running count of its attribute:
\* if i < 0 { (count as i32 + (i + 1)) as u32 } else { i as u32 }
resolve(i, count) == IF i < 0 THEN as_u32(count + (i + 1)) ELSE as_u32(i)

\* one corner `i[/t[/n]]`: (u32, Option<u32>, Option<u32>)
parse_single(fields, v_count, t_count, n_count) ==
    IF fields[1].t # "int" THEN Err(<<"ParseI">>)
    ELSE
    LET i == resolve(fields[1].v, v_count)
    IN  IF Len(fields) < 2 THEN Ok(<<i, None, None>>)
        ELSE IF fields[2].t = "junk" THEN Err(<<"ParseI">>)
        ELSE
        LET t == IF fields[2].t = "empty" THEN None
                 ELSE Some(resolve(fields[2].v, t_count))
        IN  IF Len(fields) < 3 THEN Ok(<<i, t, None>>)
            ELSE IF fields[3].t # "int" THEN Err(<<"ParseI">>)
            ELSE Ok(<<i, t, Some(resolve(fields[3].v, n_count))>>)

FaceData(i, t, n) ==
    [indicies |-> i, texture_indcicies |-> t, normal_indicies |-> n]

\* the fixed diagonal split of a quad
triangulate(index, normals, texture) ==
    LET i1 == <<index[1], index[2], index[3]>>
        i2 == <<index[1], index[3], index[4]>>
        n1 == IF IsSome(normals)
              THEN Some(<<normals[1][1], normals[1][2], normals[1][3]>>)
              ELSE None
        n2 == IF IsSome(normals)
              THEN Some(<<normals[1][1], normals[1][3], normals[1][4]>>)
              ELSE None
        t1 == IF IsSome(texture)
              THEN Some(<<texture[1][1], texture[1][2], texture[1][3]>>)
              ELSE None
        t2 == IF IsSome(texture)
              THEN Some(<<texture[1][1], texture[1][3], texture[1][4]>>)
              ELSE None
    IN  <<FaceData(i1, t1, n1), FaceData(i2, t2, n2)>>

\* match (a, b, c): all None, all Some, or unreachable!()
all_or_none(a, b, c) ==
    IF ~IsSome(a) /\ ~IsSome(b) /\ ~IsSome(c) THEN Ok(None)
    ELSE IF IsSome(a) /\ IsSome(b) /\ IsSome(c)
    THEN Ok(Some(<<a[1], b[1], c[1]>>))
    ELSE Panicked("unreachable")

\* the value is the sequence of faces the line yields (one or two)
parse_face(toks, v_count, t_count, n_count) ==
    LET single(k) ==
            IF Len(toks) < k THEN Err(<<"UnexpectedEoL">>)
            ELSE parse_single(toks[k], v_count, t_count, n_count)
        c1 == single(1)
        c2 == single(2)
        c3 == single(3)
        c4 == single(4)
        normal == all_or_none(c1.val[3], c2.val[3], c3.val[3])
        texture == all_or_none(c1.val[2], c2.val[2], c3.val[2])
    IN  IF c1.tag # "Ok" THEN c1
        ELSE IF c2.tag # "Ok" THEN c2
        ELSE IF c3.tag # "Ok" THEN c3
        ELSE IF normal.tag # "Ok" THEN normal
        ELSE IF texture.tag # "Ok" THEN texture
        ELSE IF Len(toks) >= 4
        THEN IF c4.tag # "Ok" THEN c4
             ELSE IF IsSome(normal.val) /\ ~IsSome(c4.val[3])
             THEN Panicked("unwrap")
             ELSE IF IsSome(texture.val) /\ ~IsSome(c4.val[2])
             THEN Panicked("unwrap")
             ELSE
             LET normals ==
                     IF IsSome(normal.val)
                     THEN Some(normal.val[1] \o <<c4.val[3][1]>>)
                     ELSE None
                 textures ==
                     IF IsSome(texture.val)
                     THEN Some(texture.val[1] \o <<c4.val[2][1]>>)
                     ELSE None
             IN  Ok(triangulate(
                     <<c1.val[1], c2.val[1], c3.val[1], c4.val[1]>>,
                     normals, textures))
        ELSE Ok(<<FaceData(<<c1.val[1], c2.val[1], c3.val[1]>>,
                           texture.val, normal.val)>>)

\* the directives matched as `[kind, b' ', ..]` on the trimmed line
Directives == {"v", "vn", "vt", "f", "o", "g", "s", "mtllib", "usemtl"}

Line(kind, data) == [kind |-> kind, data |-> data]

parse_line(line, v_count, t_count, n_count) ==
    LET wrap(kind, r) == IF r.tag = "Ok" THEN Ok(Line(kind, r.val)) ELSE r
    IN  IF line.kind = "" THEN Ok(Line("Empty", <<>>))
        ELSE IF line.kind = "#" THEN Ok(Line("Comment", <<>>))
        ELSE IF line.kind \notin Directives \/ line.toks = <<>>
        THEN Err(<<"UnkownLine">>)
        ELSE IF line.kind = "v" THEN wrap("Vertex", parse_vertex(line.toks))
        ELSE IF line.kind = "vn" THEN wrap("Normal", parse_normal(line.toks))
        ELSE IF line.kind = "vt"
        THEN wrap("TextureCoord", parse_texture_coord(line.toks))
        ELSE IF line.kind = "f"
        THEN wrap("Face", parse_face(line.toks, v_count, t_count, n_count))
        ELSE IF line.kind = "o" THEN Ok(Line("Object", line.toks[1]))
        ELSE IF line.kind = "g" THEN Ok(Line("Group", line.toks[1]))
        ELSE IF line.kind = "s" THEN Panicked("todo")
        ELSE IF line.kind = "mtllib" THEN Ok(Line("MaterialLib", line.toks[1]))
        ELSE Ok(Line("MaterialUse", line.toks[1]))

-----------------------------------------------------------------------------
(* ObjObject::parse: the loop over the lines, one step per line *)

\* GroupingData::default()
DefaultGrouping == [name |-> "", mtl |-> None, start |-> 0, finish |-> 0]

\* return Err(e) or unwind: the locals are dropped
Dropped ==
    /\ verticies' = <<>>
    /\ vertex_colors' = <<>>
    /\ vertex_normals' = <<>>
    /\ texture_coords' = <<>>
    /\ faces' = <<>>
    /\ groups' = <<>>
    /\ objects' = <<>>
    /\ current_group' = DefaultGrouping
    /\ current_object' = DefaultGrouping

Fail(e) ==
    /\ pc' = "error"
    /\ nread' = 0
    /\ err' = e
    /\ Dropped

Unwind(m) ==
    /\ pc' = "panic"
    /\ nread' = 0
    /\ err' = <<m>>
    /\ Dropped

\* the loop goes on to the next line
Continue ==
    /\ nread' = nread + 1
    /\ UNCHANGED <<pc, err>>

OnVertex(vertex_data) ==
    /\ verticies' = Append(verticies, vertex_data.position)
    /\ vertex_colors' =
           IF IsSome(vertex_data.color)
           THEN Append(vertex_colors, Unwrap(vertex_data.color))
           ELSE vertex_colors
    /\ UNCHANGED <<vertex_normals, texture_coords, faces, groups, objects,
                   current_group, current_object>>

OnNormal(normal) ==
    /\ vertex_normals' = Append(vertex_normals, normal)
    /\ UNCHANGED <<verticies, vertex_colors, texture_coords, faces, groups,
                   objects, current_group, current_object>>

OnTextureCoord(tex) ==
    /\ texture_coords' = Append(texture_coords, tex)
    /\ UNCHANGED <<verticies, vertex_colors, vertex_normals, faces, groups,
                   objects, current_group, current_object>>

\* Line::Face and Line::DoubleFace: fs holds one or two faces
OnFace(fs) ==
    /\ faces' = faces \o fs
    /\ current_group' =
           [current_group EXCEPT !.finish = current_group.finish + Len(fs)]
    /\ UNCHANGED <<verticies, vertex_colors, vertex_normals, texture_coords,
                   groups, objects, current_object>>

\* the Group arm without `current_object.finish += 1`: the sealed group is
\* not counted into the open object
OnGroup_NoObjectBump(data) ==
    /\ IF current_group.start = current_group.finish
       THEN /\ current_group' = [current_group EXCEPT !.name = data]
            /\ UNCHANGED <<groups, current_object>>
       ELSE /\ groups' = Append(groups, current_group)
            /\ current_group' =
                   [DefaultGrouping EXCEPT !.name = data,
                                           !.start = Len(faces),
                                           !.finish = Len(faces)]
            /\ UNCHANGED current_object
    /\ UNCHANGED <<verticies, vertex_colors, vertex_normals, texture_coords,
                   faces, objects>>

OnGroup(data) ==
    /\ IF current_group.start = current_group.finish
       THEN /\ current_group' = [current_group EXCEPT !.name = data]
            /\ UNCHANGED <<groups, current_object>>
       ELSE /\ groups' = Append(groups, current_group)
            /\ current_group' =
                   [DefaultGrouping EXCEPT !.name = data,
                                           !.start = Len(faces),
                                           !.finish = Len(faces)]
            /\ current_object' =
                   [current_object EXCEPT !.finish = current_object.finish + 1]
    /\ UNCHANGED <<verticies, vertex_colors, vertex_normals, texture_coords,
                   faces, objects>>

OnObject(data) ==
    /\ IF current_object.start = current_object.finish /\ faces = <<>>
       THEN /\ current_object' = [current_object EXCEPT !.name = data]
            /\ UNCHANGED <<groups, objects, current_group>>
       ELSE LET open == current_group.start # current_group.finish
                sealed == IF open
                          THEN [current_object EXCEPT
                                   !.finish = current_object.finish + 1]
                          ELSE current_object
                groups1 == IF open THEN Append(groups, current_group)
                           ELSE groups
            IN  /\ groups' = groups1
                /\ current_group' =
                       IF open
                       THEN [DefaultGrouping EXCEPT !.start = Len(faces),
                                                    !.finish = Len(faces)]
                       ELSE current_group
                /\ objects' = Append(objects, sealed)
                /\ current_object' =
                       [DefaultGrouping EXCEPT !.name = data,
                                               !.start = Len(groups1),
                                               !.finish = Len(groups1)]
    /\ UNCHANGED <<verticies, vertex_colors, vertex_normals, texture_coords,
                   faces>>

\* the MaterialLib arm without the is_none() test: a later mtllib replaces
\* the library of the open object
OnMaterialLib_Overwrite(data) ==
    /\ current_object' = [current_object EXCEPT !.mtl = Some(data)]
    /\ UNCHANGED <<verticies, vertex_colors, vertex_normals,
                   texture_coords, faces, groups, objects, current_group>>
    /\ Continue

OnMaterialLib(data) ==
    IF ~IsSome(current_object.mtl)
    THEN /\ current_object' = [current_object EXCEPT !.mtl = Some(data)]
         /\ UNCHANGED <<verticies, vertex_colors, vertex_normals,
                        texture_coords, faces, groups, objects, current_group>>
         /\ Continue
    ELSE Fail(<<"OjectMultipleMtl", current_object.name>>)

OnMaterialUse(data) ==
    IF ~IsSome(current_group.mtl)
    THEN /\ current_group' = [current_group EXCEPT !.mtl = Some(data)]
         /\ UNCHANGED <<verticies, vertex_colors, vertex_normals,
                        texture_coords, faces, groups, objects, current_object>>
         /\ Continue
    ELSE Fail(<<"GroupMultipleMTl", current_group.name>>)

\* one iteration of the loop: read_line returned `line`
ReadLine(line) ==
    /\ pc = "parsing"
    /\ nread < MaxLines
    /\ UNCHANGED <<flat, indexed, sphere_vars, meshlet_vars, opt_vars>>
    /\ LET r == parse_line(line, Len(verticies), Len(texture_coords),
                           Len(vertex_normals))
           l == r.val
       IN  \/ /\ r.tag = "Err"
              /\ Fail(r.val)
           \/ /\ r.tag = "Panic"
              /\ Unwind(r.val)
           \/ /\ r.tag = "Ok"
              /\ \/ /\ l.kind \in {"Empty", "Comment"}
                    /\ UNCHANGED store
                    /\ Continue
                 \/ /\ l.kind = "Vertex"
                    /\ OnVertex(l.data)
                    /\ Continue
                 \/ /\ l.kind = "Normal"
                    /\ OnNormal(l.data)
                    /\ Continue
                 \/ /\ l.kind = "TextureCoord"
                    /\ OnTextureCoord(l.data)
                    /\ Continue
                 \/ /\ l.kind = "Face"
                    /\ OnFace(l.data)
                    /\ Continue
                 \/ /\ l.kind = "Group"
                    /\ OnGroup(l.data)
                    /\ Continue
                 \/ /\ l.kind = "Object"
                    /\ OnObject(l.data)
                    /\ Continue
                 \/ /\ l.kind = "MaterialLib"
                    /\ OnMaterialLib(l.data)
                 \/ /\ l.kind = "MaterialUse"
                    /\ OnMaterialUse(l.data)

\* read_line returned 0: seal the open group and object and return the
\* store; current_group and current_object are locals, dropped on return
EndOfInput ==
    /\ pc = "parsing"
    /\ LET open == current_group.start # current_group.finish
           object1 == IF open
                      THEN [current_object EXCEPT
                               !.finish = current_object.finish + 1]
                      ELSE current_object
       IN  /\ groups' = IF open THEN Append(groups, current_group) ELSE groups
           /\ objects' = IF object1.start # object1.finish
                         THEN Append(objects, object1)
                         ELSE objects
    /\ current_group' = DefaultGrouping
    /\ current_object' = DefaultGrouping
    /\ pc' = "parsed"
    /\ nread' = 0
    /\ UNCHANGED <<verticies, vertex_colors, vertex_normals, texture_coords,
                   faces, err, flat, indexed, sphere_vars, meshlet_vars,
                   opt_vars>>

-----------------------------------------------------------------------------
(* The geometry store: hierarchical iteration (src/src/obj.rs) *)

\* &slice[start..finish] panics unless start <= finish <= slice.len()
range_ok(slice, g) == g.start <= g.finish /\ g.finish <= Len(slice)

\* &slice[start..finish]
range(slice, g) == SubSeq(slice, g.start + 1, g.finish)

\* the concatenation of a sequence of sequences
RECURSIVE concat(_)
concat(ss) == IF ss = <<>> THEN <<>> ELSE Head(ss) \o concat(Tail(ss))

\* objects_iter then group_iter: the groups in traversal order, each with
\* its Material Identity (mtllib of its object, mtluse of the group)
group_visits ==
    concat([o \in 1..Len(objects) |->
              [k \in 1..(objects[o].finish - objects[o].start) |->
                  LET g == range(groups, objects[o])[k]
                  IN  [ident |-> <<objects[o].mtl, g.mtl>>, group |-> g]]])

\* the slices taken by objects_iter and group_iter are all in range
slices_ok ==
    /\ \A o \in 1..Len(objects) : range_ok(groups, objects[o])
    /\ \A o \in 1..Len(objects) :
           \A k \in 1..(objects[o].finish - objects[o].start) :
               range_ok(faces, range(groups, objects[o])[k])

\* vec_to_option(&self.vertex_colors)
vec_to_option(vec) == IF vec = <<>> THEN None ELSE Some(vec)

\* the lookups of faces_iter for one face: none indexes outside its array
face_ok(face) ==
    /\ \A c \in 1..3 : in_bounds(face.indicies[c], verticies)
    /\ IsSome(vec_to_option(vertex_colors))
           => \A c \in 1..3 : in_bounds(face.indicies[c], vertex_colors)
    /\ IsSome(face.normal_indicies)
           => \A c \in 1..3 :
                  in_bounds(face.normal_indicies[1][c], vertex_normals)
    /\ IsSome(face.texture_indcicies)
           => \A c \in 1..3 :
                  in_bounds(face.texture_indcicies[1][c], texture_coords)

\* faces_iter and Face::verticies: the three VertexData of one face
face_verticies(face) ==
    [c \in 1..3 |->
        [position |-> at(verticies, face.indicies[c]),
         color |-> IF IsSome(vec_to_option(vertex_colors))
                   THEN Some(at(vertex_colors, face.indicies[c]))
                   ELSE None,
         normal |-> IF IsSome(face.normal_indicies)
                    THEN Some(at(vertex_normals, face.normal_indicies[1][c]))
                    ELSE None,
         texture_coord |->
             IF IsSome(face.texture_indcicies)
             THEN Some(at(texture_coords, face.texture_indcicies[1][c]))
             ELSE None]]

\* materials.iter().position(|m| *m == t), 0-based; -1 stands for None
position(materials, t) ==
    IF \E i \in 1..Len(materials) : materials[i] = t
    THEN (CHOOSE i \in 1..Len(materials) :
              /\ materials[i] = t
              /\ \A j \in 1..(i - 1) : materials[j] # t) - 1
    ELSE -1

\* the interning without the lookup: every visit pushes its pair
intern_push(materials, t) == Append(materials, t)

\* ...unwrap_or_else(|| { materials.push(t); materials.len() - 1 })
intern(materials, t) ==
    IF position(materials, t) >= 0 THEN materials ELSE Append(materials, t)

\* the material list after the first k group visits, from the list `seed`
RECURSIVE materials_after(_, _, _)
materials_after(seed, visits, k) ==
    IF k = 0 THEN seed
    ELSE intern(materials_after(seed, visits, k - 1), visits[k].ident)

\* the traversal `for obj / for group / for f / for v`: every corner as a
\* VertexTextureData, in order, with materials interned from `seed`
corners(seed) ==
    LET visits == group_visits
    IN  concat([k \in 1..Len(visits) |->
            LET texture_index ==
                    position(materials_after(seed, visits, k),
                             visits[k].ident)
                fs == range(faces, visits[k].group)
            IN  concat([f \in 1..Len(fs) |->
                    [c \in 1..3 |->
                        [material_index |-> texture_index,
                         vertex |-> face_verticies(fs[f])[c]]]])])

\* the traversal completes: no slice and no face lookup panics
traversal_ok ==
    /\ slices_ok
    /\ \A k \in 1..Len(group_visits) :
           \A f \in 1..(group_visits[k].group.finish
                          - group_visits[k].group.start) :
               face_ok(range(faces, group_visits[k].group)[f])

\* ObjObject::verticies
verticies_call ==
    IF traversal_ok
    THEN [status |-> "done",
          verticies |-> corners(<<>>),
          materials |-> materials_after(<<>>, group_visits, Len(group_visits))]
    ELSE [status |-> "panic", verticies |-> <<>>, materials |-> <<>>]

-----------------------------------------------------------------------------
(* Flattening with deduplication: ObjObject::verticies_indexed *)

\* value.vertex.position.N.to_ne_bytes(), for each component
bytes_of(tuple) == [i \in 1..Len(tuple) |-> to_ne_bytes(tuple[i])]

\* f32::from_ne_bytes(value.position.N), for each component
floats_of(tuple) == [i \in 1..Len(tuple) |-> from_ne_bytes(tuple[i])]

\* impl From<VertexTextureData> for VertexDataComp
comp_from(value) ==
    LET bytes(o) == IF IsSome(o) THEN Some(bytes_of(o[1]))
                    ELSE None
    IN  [texture_index |-> value.material_index,
         position |-> bytes_of(value.vertex.position),
         color |-> bytes(value.vertex.color),
         normal |-> bytes(value.vertex.normal),
         texture_coord |-> bytes(value.vertex.texture_coord)]

\* impl From<VertexDataComp> for VertexTextureData
vertex_from(value) ==
    LET floats(o) == IF IsSome(o) THEN Some(floats_of(o[1]))
                     ELSE None
    IN  [material_index |-> value.texture_index,
         vertex |-> [position |-> floats_of(value.position),
                     color |-> floats(value.color),
                     normal |-> floats(value.normal),
                     texture_coord |-> floats(value.texture_coord)]]

\* VertexTextureData::default()
DefaultVertex ==
    [material_index |-> 0,
     vertex |-> [position |-> <<PZero, PZero, PZero>>, color |-> None,
                 normal |-> None, texture_coord |-> None]]

\* keys compared as f32 values instead of by their bytes: +0.0 equals -0.0
\* and a NaN equals nothing
comp_eq_f32(a, b) ==
    LET eq3(x, y) ==
            /\ Len(x) = Len(y)
            /\ \A i \in 1..Len(x) :
                   f32_eq(from_ne_bytes(x[i]), from_ne_bytes(y[i]))
        eqo(x, y) == IF IsSome(x) /\ IsSome(y) THEN eq3(x[1], y[1])
                     ELSE x = y
    IN  /\ a.texture_index = b.texture_index
        /\ eq3(a.position, b.position)
        /\ eqo(a.color, b.color)
        /\ eqo(a.normal, b.normal)
        /\ eqo(a.texture_coord, b.texture_coord)

\* #[derive(PartialEq, Eq, Hash)] on VertexDataComp: the keys of the map
comp_eq(a, b) == a = b

\* the map, the index buffer and the counter after the first k corners:
\* match verticies.entry(key) { Occupied => push(*get), Vacant => insert }
RECURSIVE dedup(_, _)
dedup(cs, k) ==
    IF k = 0 THEN [map |-> {}, indicies |-> <<>>, counter |-> 0]
    ELSE LET d == dedup(cs, k - 1)
             key == comp_from(cs[k])
             hit == {e \in d.map : comp_eq(e[1], key)}
         IN  IF hit # {}
             THEN [d EXCEPT !.indicies =
                       Append(d.indicies, (CHOOSE e \in hit : TRUE)[2])]
             ELSE [map |-> d.map \cup {<<key, d.counter>>},
                   indicies |-> Append(d.indicies, d.counter),
                   counter |-> d.counter + 1]

\* the material list verticies_indexed starts from
IndexedSeed == <<<<None, None>>>>

IdleIndexed ==
    [status |-> "idle", indicies |-> <<>>, vertex_buffer |-> <<>>,
     materials |-> <<>>]

PanicIndexed == [IdleIndexed EXCEPT !.status = "panic"]

-----------------------------------------------------------------------------
(* The calls on a parsed store *)

\* let (verts, materials) = obj.verticies();
Verticies ==
    /\ pc = "parsed"
    /\ flat.status = "idle"
    /\ flat' = verticies_call
    /\ UNCHANGED <<store, nread, pc, err, indexed, sphere_vars, meshlet_vars,
                   opt_vars>>

\* `for (vert, pos) in verticies { vertex_buffer[pos] = vert.into() }` with
\* the map iterated in `order`, a sequence of its entries
RECURSIVE arrange(_, _)
arrange(vertex_buffer, order) ==
    IF order = <<>> THEN Ok(vertex_buffer)
    ELSE LET pos == Head(order)[2]
         IN  IF pos >= Len(vertex_buffer) THEN Panicked("index")
             ELSE arrange([vertex_buffer EXCEPT
                              ![pos + 1] = vertex_from(Head(order)[1])],
                          Tail(order))

\* the orders a HashMap may iterate its entries in: every one
iteration_orders(map) ==
    {order \in [1..Cardinality(map) -> map] :
        \A i, j \in 1..Cardinality(map) : i # j => order[i] # order[j]}

\* ObjObject::verticies_indexed, the map iterated in `order`
verticies_indexed_call(d, order) ==
    IF d.counter # Cardinality(d.map) THEN PanicIndexed
    ELSE LET filled == arrange([i \in 1..Cardinality(d.map) |-> DefaultVertex],
                               order)
         IN  IF filled.tag # "Ok" THEN PanicIndexed
             ELSE [status |-> "done",
                   indicies |-> d.indicies,
                   vertex_buffer |-> filled.val,
                   materials |-> materials_after(IndexedSeed, group_visits,
                                                 Len(group_visits))]

\* let (indicies, vertex_buffer, materials) = obj.verticies_indexed();
VerticiesIndexed ==
    /\ pc = "parsed"
    /\ indexed.status = "idle"
    /\ IF ~traversal_ok THEN indexed' = PanicIndexed
       ELSE LET cs == corners(IndexedSeed)
                d == dedup(cs, Len(cs))
            IN  \E order \in iteration_orders(d.map) :
                    indexed' = verticies_indexed_call(d, order)
    /\ UNCHANGED <<store, nread, pc, err, flat, sphere_vars, meshlet_vars,
                   opt_vars>>

-----------------------------------------------------------------------------
(* Vec3 (src/src/vec3.rs) and build_bounding_sphere (src/src/bounding.rs)  *)
(*                                                                         *)
(* A coordinate is an integer, every coordinate of the model being exactly *)
(* representable as f32; the points have even coordinates, so that the     *)
(* midpoint of two of them is exact. A length or distance is kept as its   *)
(* square: sqrt is monotone, so the maximum and the comparison of two      *)
(* distances are those of their squares.                                   *)

\* f32::MAX and f32::MIN: beyond every coordinate of the model
F32_MAX == 1000000
F32_MIN == 0 - F32_MAX

f32_min(a, b) == IF a <= b THEN a ELSE b
f32_max(a, b) == IF a >= b THEN a ELSE b

\* f32::midpoint, on operands whose sum is even
midpoint(a, b) == (a + b) \div 2

\* impl Sub for Vec3
sub(a, b) == <<a[1] - b[1], a[2] - b[2], a[3] - b[3]>>

\* Vec3::dot
dot(a, b) == a[3] * b[3] + (a[1] * b[1] + a[2] * b[2])

\* Vec3::cross
cross(a, b) ==
    <<a[2] * b[3] - a[3] * b[2],
      a[3] * b[1] - a[1] * b[3],
      a[1] * b[2] - a[2] * b[1]>>

\* Vec3::lenght, squared
lenght2(a) == a[3] * a[3] + (a[1] * a[1] + a[2] * a[2])

\* Vec3::distance, squared
distance2(a, b) == lenght2(sub(a, b))

\* the first loop: the running minimum and maximum of one axis after the
\* first k points
RECURSIVE min_axis(_, _, _)
min_axis(ps, axis, k) ==
    IF k = 0 THEN F32_MIN
    ELSE f32_min(min_axis(ps, axis, k - 1), ps[k][axis])

RECURSIVE max_axis(_, _, _)
max_axis(ps, axis, k) ==
    IF k = 0 THEN F32_MAX
    ELSE f32_max(max_axis(ps, axis, k - 1), ps[k][axis])

\* the second loop keeping the last distance instead of the greatest
radius2_last(ps, center, k) ==
    IF k = 0 THEN 0 ELSE distance2(ps[k], center)

\* the second loop: the running radius (squared) after the first k points
RECURSIVE radius2_after(_, _, _)
radius2_after(ps, center, k) ==
    IF k = 0 THEN 0
    ELSE f32_max(radius2_after(ps, center, k - 1), distance2(ps[k], center))

\* Sphere { center, radius }, the radius squared
build_bounding_sphere(ps) ==
    LET center == [axis \in 1..3 |->
                      midpoint(min_axis(ps, axis, Len(ps)),
                               max_axis(ps, axis, Len(ps)))]
    IN  [center |-> center, radius2 |-> radius2_after(ps, center, Len(ps))]

\* no call of build_bounding_sphere
SphereIdle ==
    /\ points = <<>>
    /\ sphere = <<>>
    /\ spc = "idle"

\* the call returns
BuildBoundingSphere ==
    /\ spc = "called"
    /\ spc' = "done"
    /\ sphere' = <<build_bounding_sphere(points)>>
    /\ UNCHANGED <<points, parse_vars, meshlet_vars, opt_vars>>

-----------------------------------------------------------------------------
(* build_meshlets (src/src/meshlet.rs)                                     *)
(*                                                                         *)
(* A unit vector that is not exactly representable (the normalized sum of  *)
(* several normals) is kept as the vector it was normalized from; a dot    *)
(* product with it is compared with the threshold exactly, by squares.     *)
(* The threshold is in tenths.                                             *)

\* the vertex buffer of the calls on small index buffers: the position of
\* each source vertex
InputVertices ==
    <<<<0, 0, 0>>, <<2, 0, 0>>, <<0, 2, 0>>, <<0, 0, 2>>, <<4, 0, 0>>>>

\* vertices[i as usize].position(), for i < vertices.len()
position_of(i) == VertexBuffer[i + 1]

\* Vec3::zero()
zero == <<0, 0, 0>>

\* Vec3::normalized, on a vector whose length is an integer
normalized(v) ==
    LET len == CHOOSE k \in 0..lenght2(v) : k * k = lenght2(v)
    IN  <<v[1] \div len, v[2] \div len, v[3] \div len>>

triangle_normal(p0, p1, p2) ==
    LET p10 == sub(p0, p1)
        p20 == sub(p2, p1)
        n == cross(p10, p20)
    IN  IF n = zero THEN n ELSE normalized(n)

\* f32::clamp(cone_threshold, 0.1, 0.9), in tenths
clamp(th) == IF th < 1 THEN 1 ELSE IF th > 9 THEN 9 ELSE th

\* `avg += *n` over the normals lo..hi; the integer sum is the same in
\* every grouping, and halving keeps the evaluation shallow on long lists
RECURSIVE sum_range(_, _, _)
sum_range(normals, lo, hi) ==
    IF lo > hi THEN zero
    ELSE IF lo = hi THEN normals[lo]
    ELSE LET mid == (lo + hi) \div 2
             front == sum_range(normals, lo, mid)
             back == sum_range(normals, mid + 1, hi)
         IN  <<front[1] + back[1], front[2] + back[2], front[3] + back[3]>>

\* `avg += *n` over the normals
sum_of(normals) == sum_range(normals, 1, Len(normals))

\* Vec3::dot(&avg, n) < th, where avg was normalized unless it is zero
dot_lt(avg, n, th) ==
    IF avg = zero THEN 0 < th
    ELSE IF dot(avg, n) < 0 THEN 0 <= th
    ELSE 100 * dot(avg, n) * dot(avg, n) < th * th * lenght2(avg)

check_cone(normals, th) ==
    LET avg == sum_of(normals)
    IN  \A k \in 1..Len(normals) : ~dot_lt(avg, normals[k], th)

\* the cone test on the normals already held, without the candidate
check_cone_held(normals, next, th) == check_cone(normals, th)

\* the cone test on the candidate alone
check_cone_alone(normals, next, th) == check_cone(<<next>>, th)

check_cone_next(normals, next, th) == check_cone(Append(normals, next), th)

\* (avg.x, avg.y, avg.z, conew): avg as the vector it was normalized from,
\* conew as the fraction <<numerator, denominator>> of its square
calc_cone(normals) ==
    LET avg == sum_of(normals)
        dots == {dot(avg, normals[k]) : k \in 1..Len(normals)}
        least == CHOOSE d \in dots : \A e \in dots : d <= e
    IN  [avg |-> avg,
         conew2 |-> IF normals = <<>> THEN <<0, 1>>
                    ELSE IF avg = zero \/ least <= 0 THEN <<1, 1>>
                    ELSE <<lenght2(avg) - least * least, lenght2(avg)>>]

\* Meshlet::default()
DefaultMeshlet ==
    [cone |-> [avg |-> zero, conew2 |-> <<0, 1>>],
     bounding |-> [center |-> zero, radius2 |-> 0],
     vertices |-> [k \in 1..VERTEX_COUNT |-> 0],
     triangles |-> [k \in 1..TRIANGLE_COUNT |-> <<0, 0, 0>>],
     vertex_count |-> 0,
     triangle_count |-> 0]

\* the locals of build_meshlets
Locals(m, ms, c, cv, cn) ==
    [meshlet |-> m, meshlets |-> ms, contained |-> c,
     current_vertices |-> cv, current_normals |-> cn]

\* the flush without `contained.fill(-1)`
flush_keeps_slots(st) ==
    Locals(DefaultMeshlet,
           Append(st.meshlets,
                  [st.meshlet EXCEPT
                      !.cone = calc_cone(st.current_normals),
                      !.bounding =
                          build_bounding_sphere(st.current_vertices)]),
           st.contained, <<>>, <<>>)

\* `if indices_full || verts_full || too_wide { .. }`: the flush
flush(st) ==
    Locals(DefaultMeshlet,
           Append(st.meshlets,
                  [st.meshlet EXCEPT
                      !.cone = calc_cone(st.current_normals),
                      !.bounding =
                          build_bounding_sphere(st.current_vertices)]),
           [k \in 1..Len(st.contained) |-> 0 - 1],
           <<>>, <<>>)

\* the insertion that takes the slot without writing the source index
insert_blank(st, i) ==
    IF st.contained[i + 1] # 0 - 1 THEN st
    ELSE [st EXCEPT
             !.contained[i + 1] = st.meshlet.vertex_count,
             !.meshlet.vertex_count = st.meshlet.vertex_count + 1]

\* `if *va == -1 { .. }` for the source vertex i
insert(st, i) ==
    IF st.contained[i + 1] # 0 - 1 THEN st
    ELSE [st EXCEPT
             !.contained[i + 1] = st.meshlet.vertex_count,
             !.meshlet.vertices[st.meshlet.vertex_count + 1] = i,
             !.meshlet.vertex_count = st.meshlet.vertex_count + 1]

\* the in-progress meshlet has no free slot for the source vertex i
no_slot(st, i) ==
    /\ st.contained[i + 1] = 0 - 1
    /\ st.meshlet.vertex_count >= VERTEX_COUNT

\* no call of build_meshlets
MeshletsIdle ==
    /\ VERTEX_COUNT = MaxVertexCount
    /\ TRIANGLE_COUNT = MaxTriangleCount
    /\ VertexBuffer = <<>>
    /\ indices = <<>>
    /\ cone_threshold = 0
    /\ next_face = 0
    /\ meshlet = DefaultMeshlet
    /\ meshlets = <<>>
    /\ contained = <<>>
    /\ current_vertices = <<>>
    /\ current_normals = <<>>
    /\ mpc = "idle"

\* a + b on u8: the sum; on overflow the panic of a debug build (-1) or the
\* wrapped sum of a release build
u8_add(a, b) ==
    IF a + b <= 255 THEN a + b
    ELSE IF debug_build THEN 0 - 1
    ELSE (a + b) % 256

\* debug_assert!(check_cone(&current_normals, cone_threshold)) fails
assert_fails(normals, th) == debug_build /\ ~check_cone(normals, th)

\* the assignment of the locals
SetLocals(st) ==
    /\ meshlet' = st.meshlet
    /\ meshlets' = st.meshlets
    /\ contained' = st.contained
    /\ current_vertices' = st.current_vertices
    /\ current_normals' = st.current_normals

\* a panic unwinds build_meshlets: the locals are dropped, nothing returned
MeshletsPanic ==
    /\ mpc' = "panic"
    /\ SetLocals(Locals(DefaultMeshlet, <<>>, <<>>, <<>>, <<>>))
    /\ UNCHANGED next_face

\* build_meshlets is called: the locals before the loop
Call ==
    /\ mpc = "called"
    /\ mpc' = "loop"
    /\ SetLocals(Locals(DefaultMeshlet, <<>>,
                        [k \in 1..Len(VertexBuffer) |-> 0 - 1], <<>>, <<>>))
    /\ UNCHANGED <<meshlet_args, next_face, debug_build, parse_vars,
                   sphere_vars, opt_vars>>

\* one iteration of `for [i0, i1, i2] in faces`
AddFace ==
    /\ mpc = "loop"
    /\ next_face < Len(indices) \div 3
    /\ UNCHANGED <<meshlet_args, debug_build, parse_vars, sphere_vars,
                   opt_vars>>
    /\ LET i0 == indices[3 * next_face + 1]
           i1 == indices[3 * next_face + 2]
           i2 == indices[3 * next_face + 3]
           st0 == Locals(meshlet, meshlets, contained, current_vertices,
                         current_normals)
       IN  IF \E i \in {i0, i1, i2} : i >= Len(VertexBuffer)
           THEN MeshletsPanic
           ELSE LET normal == triangle_normal(position_of(i0), position_of(i1),
                                              position_of(i2))
                    additional_vertices ==
                        (IF contained[i0 + 1] = 0 - 1 THEN 1 ELSE 0)
                        + (IF contained[i1 + 1] = 0 - 1 THEN 1 ELSE 0)
                        + (IF contained[i2 + 1] = 0 - 1 THEN 1 ELSE 0)
                    indices_full == meshlet.triangle_count = TRIANGLE_COUNT
                    too_wide == ~check_cone_next(current_normals, normal,
                                                 clamp(cone_threshold))
                    total == u8_add(meshlet.vertex_count, additional_vertices)
                    verts_full == total > VERTEX_COUNT
                    flushes == indices_full \/ verts_full \/ too_wide
                IN  LET st1 == IF flushes THEN flush(st0) ELSE st0
                        st2 == insert(st1, i0)
                        st3 == insert(st2, i1)
                        st4 == insert(st3, i2)
                        local == <<st4.contained[i0 + 1], st4.contained[i1 + 1],
                                   st4.contained[i2 + 1]>>
                        count == st4.meshlet.triangle_count
                    IN  IF \/ total = 0 - 1
                           \/ /\ flushes
                              /\ assert_fails(current_normals,
                                              clamp(cone_threshold))
                           \/ i0 = i1 \/ i1 = i2 \/ i0 = i2
                           \/ no_slot(st1, i0) \/ no_slot(st2, i1)
                           \/ no_slot(st3, i2)
                           \/ count >= TRIANGLE_COUNT
                           \/ \E k \in 1..3 : local[k] > 255
                        THEN MeshletsPanic
                        ELSE /\ SetLocals(
                                  [st4 EXCEPT
                                      !.meshlet.triangles[count + 1] = local,
                                      !.meshlet.triangle_count = count + 1,
                                      !.current_normals =
                                          Append(st4.current_normals, normal),
                                      !.current_vertices =
                                          st4.current_vertices
                                              \o <<position_of(i0),
                                                   position_of(i1),
                                                   position_of(i2)>>])
                             /\ next_face' = next_face + 1
                             /\ mpc' = "loop"

\* after the loop: the in-progress meshlet is pushed if it holds a triangle
Return ==
    /\ mpc = "loop"
    /\ next_face = Len(indices) \div 3
    /\ UNCHANGED <<meshlet_args, debug_build, parse_vars, sphere_vars,
                   opt_vars>>
    /\ IF meshlet.triangle_count = 0
       THEN /\ mpc' = "done"
            /\ UNCHANGED <<next_face, meshlet, meshlets, contained,
                           current_vertices, current_normals>>
       ELSE IF assert_fails(current_normals, clamp(cone_threshold))
       THEN MeshletsPanic
       ELSE /\ mpc' = "done"
            /\ meshlets' =
                   Append(meshlets,
                          [meshlet EXCEPT
                              !.cone = calc_cone(current_normals),
                              !.bounding =
                                  build_bounding_sphere(current_vertices)])
            /\ UNCHANGED <<next_face, meshlet, contained, current_vertices,
                           current_normals>>

-----------------------------------------------------------------------------
(* optimize_vertex_order (src/src/opt.rs)                                  *)
(*                                                                         *)
(* The maps and sets of the function are keyed by VertexTextureData, whose *)
(* Eq and Hash are not in src/: following the specification's "bit-exact   *)
(* float keys", two records are the same key when all their fields have    *)
(* the same bits.                                                          *)

\* the equality of two keys of the maps: the raw bit pattern of each field
key_eq(a, b) == a = b

\* the members of a sequence as keys
keys_of(seq) ==
    {seq[k] : k \in {j \in 1..Len(seq) :
                        \A i \in 1..(j - 1) : ~key_eq(seq[i], seq[j])}}

\* vertices.chunks(3): the k-th face
chunk(seq, k) == SubSeq(seq, 3 * k - 2, 3 * k)

\* the adjacency map with an entry for a vertex whether or not the stream
\* holds it
build_adjacency_ghost(seq) ==
    [v \in keys_of(seq) \cup {DefaultVertex} |->
        {chunk(seq, k) : k \in {j \in 1..(Len(seq) \div 3) :
                                   \E c \in 1..3 :
                                       key_eq(chunk(seq, j)[c], v)}}]

\* the adjacency map built from the stream: each vertex to the set of the
\* faces that hold it
build_adjacency(seq) ==
    [v \in keys_of(seq) |->
        {chunk(seq, k) : k \in {j \in 1..(Len(seq) \div 3) :
                                   \E c \in 1..3 :
                                       key_eq(chunk(seq, j)[c], v)}}]

\* the drain without the test of current_faces: every face is emitted
\* each time it is met
RECURSIVE emit_all(_, _)
emit_all(order, st) ==
    IF order = <<>> THEN st
    ELSE emit_all(Tail(order),
                  [current_faces |-> st.current_faces \cup {Head(order)},
                   new_vertices |-> st.new_vertices \o Head(order),
                   stack |-> st.stack \o Head(order)])

\* the drain without the pushes onto the stack
RECURSIVE emit_quiet(_, _)
emit_quiet(order, st) ==
    IF order = <<>> THEN st
    ELSE emit_quiet(Tail(order),
                    [current_faces |-> st.current_faces \cup {Head(order)},
                     new_vertices |->
                         IF Head(order) \in st.current_faces
                         THEN st.new_vertices
                         ELSE st.new_vertices \o Head(order),
                     stack |-> st.stack])

\* `for [v0, v1, v2] in faces.drain() { if current_faces.insert(..) {..} }`
\* with the set drained in `order`, from the state st of the locals
RECURSIVE emit(_, _)
emit(order, st) ==
    IF order = <<>> THEN st
    ELSE LET face == Head(order)
         IN  IF \E f \in st.current_faces :
                    \A c \in 1..3 : key_eq(f[c], face[c])
             THEN emit(Tail(order), st)
             ELSE emit(Tail(order),
                       [current_faces |-> st.current_faces \cup {face},
                        new_vertices |-> st.new_vertices \o face,
                        stack |-> st.stack \o face])

\* no call of optimize_vertex_order
OptIdle ==
    /\ stream = <<>>
    /\ vertices = <<>>
    /\ new_vertices = <<>>
    /\ current_faces = {}
    /\ adjacency = <<>>
    /\ stack = <<>>
    /\ current = <<>>
    /\ opc = "idle"

\* a panic unwinds optimize_vertex_order: nothing is returned
OptPanic ==
    /\ opc' = "panic"
    /\ new_vertices' = <<>>
    /\ current_faces' = {}
    /\ adjacency' = <<>>
    /\ stack' = <<>>
    /\ current' = <<>>
    /\ UNCHANGED <<stream, vertices>>

\* the call up to the loop: the empty input returns at once, the length is
\* asserted, the adjacency map is built and the seed popped
Optimize ==
    /\ opc = "called"
    /\ UNCHANGED <<stream, parse_vars, sphere_vars, meshlet_vars>>
    /\ IF vertices = <<>>
       THEN /\ opc' = "done"
            /\ UNCHANGED <<vertices, new_vertices, current_faces, adjacency,
                           stack, current>>
       ELSE IF Len(vertices) % 3 # 0
       THEN OptPanic
       ELSE /\ opc' = "loop"
            /\ adjacency' = build_adjacency(vertices)
            /\ current' = <<vertices[Len(vertices)]>>
            /\ vertices' = SubSeq(vertices, 1, Len(vertices) - 1)
            /\ UNCHANGED <<new_vertices, current_faces, stack>>

\* one iteration of the loop; the last one returns new_vertices
Visit ==
    /\ opc = "loop"
    /\ UNCHANGED <<stream, parse_vars, sphere_vars, meshlet_vars>>
    /\ LET here == {v \in DOMAIN adjacency : key_eq(v, current[1])}
           faces_here == UNION {adjacency[v] : v \in here}
       IN  \E order \in iteration_orders(faces_here) :
               LET st == emit(order, [current_faces |-> current_faces,
                                      new_vertices |-> new_vertices,
                                      stack |-> stack])
                   rest == [v \in DOMAIN adjacency \ here |-> adjacency[v]]
                   kept == /\ current_faces' = st.current_faces
                           /\ new_vertices' = st.new_vertices
                           /\ adjacency' = rest
               IN  IF st.stack # <<>>
                   THEN /\ kept
                        /\ current' = <<st.stack[Len(st.stack)]>>
                        /\ stack' = SubSeq(st.stack, 1, Len(st.stack) - 1)
                        /\ UNCHANGED <<vertices, opc>>
                   ELSE IF vertices # <<>>
                   THEN /\ kept
                        /\ current' = <<vertices[Len(vertices)]>>
                        /\ vertices' = SubSeq(vertices, 1, Len(vertices) - 1)
                        /\ UNCHANGED <<stack, opc>>
                   ELSE IF debug_build /\ DOMAIN rest # {}
                   THEN OptPanic
                   ELSE /\ kept
                        /\ opc' = "done"
                        /\ UNCHANGED <<vertices, stack, current>>

-----------------------------------------------------------------------------
(* The input lines of the model *)

InLine(kind, toks) == [kind |-> kind, toks |-> toks]

\* corners `i`, `i/t`, `i//n`, `i/t/n`
C(i) == <<IntField(i)>>
CT(i, t) == <<IntField(i), IntField(t)>>
CN(i, n) == <<IntField(i), EmptyField, IntField(n)>>
CTN(i, t, n) == <<IntField(i), IntField(t), IntField(n)>>

VertexLines ==
    {InLine("v", <<NumTok(NZero), NumTok(PZero), NumTok(PZero)>>),
     InLine("v", <<NumTok(PZero), NumTok(PZero), NumTok(PZero)>>),
     InLine("v", <<NumTok(QNaN), NumTok(PZero), NumTok(PZero),
                   NumTok(One), NumTok(One), NumTok(One)>>),
     InLine("v", <<NumTok(PZero), NumTok(PZero)>>),
     InLine("v", <<NumTok(PZero), NumTok(PZero), NumTok(PZero), NumTok(One)>>),
     InLine("v", <<NumTok(PZero), JunkNum, NumTok(PZero)>>)}

AttrLines ==
    {InLine("vn", <<NumTok(PZero), NumTok(PZero), NumTok(One)>>),
     InLine("vn", <<NumTok(PZero), NumTok(PZero)>>),
     InLine("vt", <<NumTok(PZero), NumTok(One)>>),
     InLine("vt", <<NumTok(One)>>)}

FaceLines ==
    {InLine("f", <<C(1), C(-1), C(-2)>>),
     InLine("f", <<CN(1, 1), CN(-1, -1), CN(1, 1)>>),
     InLine("f", <<CT(1, 1), CT(-1, -1), CT(1, 1)>>),
     InLine("f", <<C(1), C(-1), C(1), C(-1)>>),
     InLine("f", <<CTN(1, 1, 1), CTN(-1, -1, -1), CTN(1, 1, 1),
                   CTN(-1, 1, 1)>>),
     InLine("f", <<C(1), C(-1), C(1), CN(-1, 1)>>),
     InLine("f", <<C(1), C(-1), C(1), C(-1), C(1)>>),
     InLine("f", <<C(1), C(1), CT(1, 1)>>),
     InLine("f", <<CN(1, 1), CN(1, 1), CN(1, 1), C(1)>>),
     InLine("f", <<C(1), C(2)>>),
     InLine("f", <<C(1), <<JunkField>>, C(1)>>)}

GroupingLines ==
    {InLine("o", <<"a">>), InLine("g", <<"a">>), InLine("mtllib", <<"m">>),
     InLine("usemtl", <<"u">>)}

OtherLines ==
    {InLine("", <<>>), InLine("#", <<>>), InLine("s", <<"1">>),
     InLine("g", <<>>), InLine("x", <<"1">>)}

-----------------------------------------------------------------------------
(* The specification *)

Init ==
    /\ verticies = <<>>
    /\ vertex_colors = <<>>
    /\ vertex_normals = <<>>
    /\ texture_coords = <<>>
    /\ faces = <<>>
    /\ groups = <<>>
    /\ objects = <<>>
    /\ current_group = DefaultGrouping
    /\ current_object = DefaultGrouping
    /\ nread = 0
    /\ pc = "parsing"
    /\ err = <<>>
    /\ flat = [status |-> "idle", verticies |-> <<>>, materials |-> <<>>]
    /\ indexed = IdleIndexed
    /\ SphereIdle
    /\ MeshletsIdle
    /\ OptIdle
    /\ debug_build = FALSE

Next ==
    \/ \E line \in VertexLines : ReadLine(line)
    \/ \E line \in AttrLines : ReadLine(line)
    \/ \E line \in FaceLines : ReadLine(line)
    \/ \E line \in GroupingLines : ReadLine(line)
    \/ \E line \in OtherLines : ReadLine(line)
    \/ EndOfInput
    \/ Verticies
    \/ VerticiesIndexed

Spec == Init /\ [][Next]_vars

-----------------------------------------------------------------------------
(* build_bounding_sphere on every sequence of at most MaxPoints points *)

Coordinates == {0 - 2, 0, 2}

InputPoints == {<<x, y, z>> : x \in Coordinates, y \in {0, 2}, z \in {0, 4}}

\* the sequences of at most n members of S
SeqsUpTo(S, n) == UNION {[1..k -> S] : k \in 0..n}

ParseIdle ==
    /\ verticies = <<>>
    /\ vertex_colors = <<>>
    /\ vertex_normals = <<>>
    /\ texture_coords = <<>>
    /\ faces = <<>>
    /\ groups = <<>>
    /\ objects = <<>>
    /\ current_group = DefaultGrouping
    /\ current_object = DefaultGrouping
    /\ nread = 0
    /\ pc = "idle"
    /\ err = <<>>
    /\ flat = [status |-> "idle", verticies |-> <<>>, materials |-> <<>>]
    /\ indexed = IdleIndexed

InitSphere ==
    /\ points \in SeqsUpTo(InputPoints, MaxPoints)
    /\ sphere = <<>>
    /\ spc = "called"
    /\ ParseIdle
    /\ MeshletsIdle
    /\ OptIdle
    /\ debug_build = FALSE

NextSphere == BuildBoundingSphere

SpecSphere == InitSphere /\ [][NextSphere]_vars

-----------------------------------------------------------------------------
(* build_meshlets on every index buffer of at most MaxFaces faces *)

\* faces over InputVertices, with normals -z, +z, +y, zero (collinear), -y,
\* and a face that repeats an index
InputFaces ==
    {<<0, 1, 2>>, <<0, 2, 1>>, <<0, 1, 3>>, <<0, 1, 4>>, <<0, 3, 4>>,
     <<0, 0, 1>>}

\* the cone thresholds given: below, inside and above [0.1, 0.9]
InputThresholds == {0, 5, 12}

InitMeshlets ==
    /\ VERTEX_COUNT = MaxVertexCount
    /\ TRIANGLE_COUNT = MaxTriangleCount
    /\ VertexBuffer = InputVertices
    /\ \E fs \in SeqsUpTo(InputFaces, MaxFaces) : \E rest \in {<<>>, <<0>>} :
           indices = concat(fs) \o rest
    /\ cone_threshold \in InputThresholds
    /\ debug_build \in BOOLEAN
    /\ next_face = 0
    /\ meshlet = DefaultMeshlet
    /\ meshlets = <<>>
    /\ contained = <<>>
    /\ current_vertices = <<>>
    /\ current_normals = <<>>
    /\ mpc = "called"
    /\ ParseIdle
    /\ SphereIdle
    /\ OptIdle

NextMeshlets ==
    \/ Call
    \/ AddFace
    \/ Return

SpecMeshlets == InitMeshlets /\ [][NextMeshlets]_vars

-----------------------------------------------------------------------------
(* build_meshlets with the greatest capacities of the 8-bit counters, on   *)
(* triangle strips                                                         *)

\* u8::MAX, the greatest value of Meshlet::vertex_count and triangle_count
U8_MAX == 255

\* the vertex buffer of a flat zigzag strip: vertex k at (2k, 0, 0) for an
\* even k and at (2k, 2, 0) for an odd k
StripVertices ==
    [k \in 1..(MaxStrip + 2) |-> <<2 * (k - 1), 2 * ((k - 1) % 2), 0>>]

\* the j-th triangle of the strip, 0-based, wound so that every normal is
\* (0, 0, 1)
strip_face(j) == IF j % 2 = 0 THEN <<j, j + 1, j + 2>> ELSE <<j + 1, j, j + 2>>

\* the index buffer of the first n triangles of the strip
strip(n) ==
    [k \in 1..(3 * n) |-> strip_face((k - 1) \div 3)[((k - 1) % 3) + 1]]

InitCapacity ==
    /\ VERTEX_COUNT = U8_MAX
    /\ TRIANGLE_COUNT = U8_MAX
    /\ VertexBuffer = StripVertices
    /\ \E n \in {1, 2, MaxStrip} : indices = strip(n)
    /\ cone_threshold = 5
    /\ debug_build \in BOOLEAN
    /\ next_face = 0
    /\ meshlet = DefaultMeshlet
    /\ meshlets = <<>>
    /\ contained = <<>>
    /\ current_vertices = <<>>
    /\ current_normals = <<>>
    /\ mpc = "called"
    /\ ParseIdle
    /\ SphereIdle
    /\ OptIdle

NextCapacity ==
    \/ Call
    \/ AddFace
    \/ Return

SpecCapacity == InitCapacity /\ [][NextCapacity]_vars

\* build_bounding_sphere called on its own or from build_meshlets
InitGeometry == InitSphere \/ InitMeshlets

NextGeometry ==
    \/ BuildBoundingSphere
    \/ Call
    \/ AddFace
    \/ Return

SpecGeometry == InitGeometry /\ [][NextGeometry]_vars

-----------------------------------------------------------------------------
(* optimize_vertex_order on every stream of at most MaxTriangles triangles *)

\* five records: +0.0 and -0.0 in one coordinate, two other positions, and
\* another material index
VertexA == DefaultVertex
VertexB == [DefaultVertex EXCEPT !.vertex.position = <<NZero, PZero, PZero>>]
VertexC == [DefaultVertex EXCEPT !.vertex.position = <<One, PZero, PZero>>]
VertexD == [DefaultVertex EXCEPT !.vertex.position = <<One, One, PZero>>]
VertexE == [DefaultVertex EXCEPT !.material_index = 1]

InputTriangles ==
    {<<VertexA, VertexB, VertexC>>, <<VertexC, VertexB, VertexA>>,
     <<VertexA, VertexA, VertexB>>, <<VertexD, VertexE, VertexD>>,
     <<VertexC, VertexD, VertexE>>}

InitOpt ==
    /\ \E ts \in SeqsUpTo(InputTriangles, MaxTriangles) :
       \E rest \in {<<>>, <<VertexA>>} :
           vertices = concat(ts) \o rest
    /\ stream = vertices
    /\ debug_build \in BOOLEAN
    /\ new_vertices = <<>>
    /\ current_faces = {}
    /\ adjacency = <<>>
    /\ stack = <<>>
    /\ current = <<>>
    /\ opc = "called"
    /\ ParseIdle
    /\ SphereIdle
    /\ MeshletsIdle

NextOpt ==
    \/ Optimize
    \/ Visit

SpecOpt == InitOpt /\ [][NextOpt]_vars

\* the call is not suspended: the function runs on one thread until it
\* returns or panics
SpecOptFair == SpecOpt /\ WF_vars(Optimize) /\ WF_vars(Visit)

-----------------------------------------------------------------------------
(* Properties *)

\* the value of the u32 `u` is the integer n
u32_is(u, n) == n >= 0 /\ u = <<n \div 65536, n % 65536>>

\* the value of the u32 `u` lies in 1..count
u32_in(u, count) == u[1] = 0 /\ 1 <= u[2] /\ u[2] <= count

\* every index of `face` is at least 1 and at most the count of its array
face_in(face, v_count, t_count, n_count) ==
    /\ \A c \in 1..3 : u32_in(face.indicies[c], v_count)
    /\ IsSome(face.texture_indcicies)
           => \A c \in 1..3 : u32_in(face.texture_indcicies[1][c], t_count)
    /\ IsSome(face.normal_indicies)
           => \A c \in 1..3 : u32_in(face.normal_indicies[1][c], n_count)

\* C1: on every input parse accepts, verticies() returns a sequence of
\* exactly 3 * face_count() records.
C1_FlatCount ==
    (pc = "parsed" /\ flat.status # "idle")
        => (flat.status = "done" /\ Len(flat.verticies) = 3 * Len(faces))

\* C2: every face a face line stores has, for each corner, a position,
\* texture-coordinate and normal index that is >= 1 and <= the number of
\* entries its array holds when the line is read (the input may end after
\* any line, so every stored face is a face of a successful parse).
C2_IndicesInRange ==
    [][\A line \in FaceLines :
          (ReadLine(line) /\ pc' = "parsing")
              => \A k \in (Len(faces) + 1)..Len(faces') :
                     face_in(faces'[k], Len(verticies), Len(texture_coords),
                             Len(vertex_normals))]_vars

\* the ranges [start, finish) of `ranges` are in order, contiguous, and cover
\* exactly 0..total-1, each position lying in exactly one of them
partition(ranges, total) ==
    /\ \A i \in 1..Len(ranges) : ranges[i].start <= ranges[i].finish
    /\ ranges = <<>> => total = 0
    /\ ranges # <<>>
           => ranges[1].start = 0 /\ ranges[Len(ranges)].finish = total
    /\ \A i \in 1..(Len(ranges) - 1) : ranges[i].finish = ranges[i + 1].start
    /\ \A k \in 0..(total - 1) :
           Cardinality({i \in 1..Len(ranges) :
                           ranges[i].start <= k /\ k < ranges[i].finish}) = 1

\* C3: after a successful parse the group ranges are in file order,
\* contiguous and non-overlapping and cover exactly [0, face count), and the
\* object ranges likewise cover exactly [0, group count).
C3_RangesPartition ==
    pc = "parsed"
        => /\ partition(groups, Len(faces))
           /\ partition(objects, Len(groups))

\* a parse that sealed two objects and two groups over three faces
C3_Witness ==
    /\ pc = "parsed"
    /\ Len(objects) >= 2
    /\ Len(groups) >= 2
    /\ Len(faces) >= 3

\* C4: on every input parse accepts, verticies_indexed() returns an index
\* buffer of length 3 * face_count() whose entries are all below the length
\* of the returned vertex buffer.
C4_IndexBuffer ==
    (pc = "parsed" /\ indexed.status # "idle")
        => /\ indexed.status = "done"
           /\ Len(indexed.indicies) = 3 * Len(faces)
           /\ \A k \in 1..Len(indexed.indicies) :
                  indexed.indicies[k] < Len(indexed.vertex_buffer)

\* C5: on every input parse accepts, the index buffer of verticies_indexed()
\* looked up in its vertex buffer gives, corner by corner, the records of
\* verticies(): the same bits in every field and the same (mtllib, mtluse)
\* pair, each taken from the material list of its own call.
C5_Replay ==
    (pc = "parsed" /\ flat.status # "idle" /\ indexed.status # "idle")
        => /\ flat.status = "done"
           /\ indexed.status = "done"
           /\ Len(indexed.indicies) = Len(flat.verticies)
           /\ \A k \in 1..Len(indexed.indicies) :
                  LET r == indexed.vertex_buffer[indexed.indicies[k] + 1]
                      v == flat.verticies[k]
                  IN  /\ r.vertex = v.vertex
                      /\ indexed.materials[r.material_index + 1]
                             = flat.materials[v.material_index + 1]

\* `records` without the repetitions of an earlier record
RECURSIVE first_seen(_)
first_seen(records) ==
    IF records = <<>> THEN <<>>
    ELSE LET front == first_seen(SubSeq(records, 1, Len(records) - 1))
             last == records[Len(records)]
         IN  IF \E i \in 1..Len(front) : front[i] = last THEN front
             ELSE Append(front, last)

\* C6: the vertex buffer verticies_indexed() returns holds one record for
\* each distinct corner (every field compared by its bits, and the material
\* index), in the order of first occurrence in the traversal; an index of
\* the index buffer that occurs for the first time is the number of
\* distinct indices before it. This holds for every order the map is
\* iterated in.
C6_FirstSeenOrder ==
    (pc = "parsed" /\ indexed.status = "done")
        => /\ indexed.vertex_buffer = first_seen(corners(IndexedSeed))
           /\ \A k \in 1..Len(indexed.indicies) :
                  (\A j \in 1..(k - 1) :
                       indexed.indicies[j] # indexed.indicies[k])
                      => indexed.indicies[k]
                             = Cardinality({indexed.indicies[j] :
                                               j \in 1..(k - 1)})

\* a returned vertex buffer that keeps +0.0 and -0.0 apart and whose index
\* buffer repeats an index
C6_Witness ==
    /\ pc = "parsed"
    /\ indexed.status = "done"
    /\ Len(indexed.indicies) > Len(indexed.vertex_buffer)
    /\ \E i, j \in 1..Len(indexed.vertex_buffer) :
           /\ indexed.vertex_buffer[i].vertex.position[1] = NZero
           /\ indexed.vertex_buffer[j].vertex.position[1] = PZero

\* C7: verticies_indexed() and verticies() return the same material list,
\* and the k-th corner has the same material index in both results.
C7_SameInterning ==
    (pc = "parsed" /\ flat.status = "done" /\ indexed.status = "done")
        => /\ indexed.materials = flat.materials
           /\ \A k \in 1..Len(indexed.indicies) :
                  indexed.vertex_buffer[indexed.indicies[k] + 1].material_index
                      = flat.verticies[k].material_index

\* C8: on a store returned by parse, iteration and flattening complete: no
\* face lookup indexes outside its array, and neither call panics.
C8_NoPanic ==
    pc = "parsed"
        => /\ traversal_ok
           /\ flat.status # "panic"
           /\ indexed.status # "panic"

\* the corner of the line that corner c of the j-th face of the line is
line_corner(j, c) == IF j = 1 THEN c ELSE <<1, 3, 4>>[c]

\* the index a field resolves to: count - k + 1 for -k, else as written
resolved(field, count) ==
    IF field.v < 0 THEN count - (0 - field.v) + 1 ELSE field.v

\* C9: a face line that is accepted stores, for each corner, the position,
\* texture-coordinate and normal index its fields resolve to: count - k + 1
\* for a negative field -k, the field itself otherwise, each against the
\* running count of its own array.
C9_Resolve ==
    [][\A line \in FaceLines :
          (ReadLine(line) /\ pc' = "parsing")
              => \A j \in 1..(Len(faces') - Len(faces)) : \A c \in 1..3 :
                     LET face == faces'[Len(faces) + j]
                         fields == line.toks[line_corner(j, c)]
                     IN  /\ u32_is(face.indicies[c],
                                   resolved(fields[1], Len(verticies)))
                         /\ IsSome(face.texture_indcicies)
                                => u32_is(face.texture_indcicies[1][c],
                                          resolved(fields[2],
                                                   Len(texture_coords)))
                         /\ IsSome(face.normal_indicies)
                                => u32_is(face.normal_indicies[1][c],
                                          resolved(fields[3],
                                                   Len(vertex_normals)))]_vars

\* `face` carries the references of the corners cs (parsed corners)
carries(face, cs) ==
    /\ face.indicies = <<cs[1][1], cs[2][1], cs[3][1]>>
    /\ \A c \in 1..3 :
           /\ IsSome(cs[c][2])
                  => /\ IsSome(face.texture_indcicies)
                     /\ face.texture_indcicies[1][c] = cs[c][2][1]
           /\ IsSome(cs[c][3])
                  => /\ IsSome(face.normal_indicies)
                     /\ face.normal_indicies[1][c] = cs[c][3][1]
    /\ (\A c \in 1..3 : ~IsSome(cs[c][2])) => ~IsSome(face.texture_indcicies)
    /\ (\A c \in 1..3 : ~IsSome(cs[c][3])) => ~IsSome(face.normal_indicies)

\* C10: an accepted face line of 4 corners stores the two faces (c1, c2, c3) and
\* (c1, c3, c4), a face line of 3 corners stores one face, each face with
\* the texture-coordinate and normal references of its own corners, and the
\* open group's range grows by the number of faces stored.
C10_Quad ==
    [][\A line \in FaceLines :
          (ReadLine(line) /\ pc' = "parsing" /\ Len(line.toks) \in {3, 4})
              => LET cs == [c \in 1..Len(line.toks) |->
                               parse_single(line.toks[c], Len(verticies),
                                            Len(texture_coords),
                                            Len(vertex_normals)).val]
                     n == Len(line.toks) - 2
                 IN  /\ Len(faces') = Len(faces) + n
                     /\ SubSeq(faces', 1, Len(faces)) = faces
                     /\ \A j \in 1..n :
                            carries(faces'[Len(faces) + j],
                                    [c \in 1..3 |-> cs[line_corner(j, c)]])
                     /\ current_group'.start = current_group.start
                     /\ current_group'.finish = current_group.finish + n]_vars

\* C11: a mtllib line read while the open object already has a library fails
\* with OjectMultipleMtl carrying the open object's name and returns no
\* store; the open object has a library from an accepted mtllib line until
\* an `o` line seals the object (appends it to objects).
C11_SecondMtllib ==
    [][\A line \in GroupingLines :
          ReadLine(line)
              => /\ (line.kind = "mtllib" /\ IsSome(current_object.mtl))
                        => /\ pc' = "error"
                           /\ err' = <<"OjectMultipleMtl", current_object.name>>
                           /\ objects' = <<>> /\ faces' = <<>>
                 /\ (line.kind = "mtllib" /\ pc' = "parsing")
                        => current_object'.mtl = Some(line.toks[1])
                 /\ (IsSome(current_object.mtl) /\ pc' = "parsing"
                         /\ objects' = objects)
                        => IsSome(current_object'.mtl)]_vars

\* the parse failed on the second mtllib of the object named a
C11_Witness ==
    /\ pc = "error"
    /\ err = <<"OjectMultipleMtl", "a">>

\* whether the corner has a texture-coordinate field, a normal field
has_texture(fields) == Len(fields) >= 2 /\ fields[2].t # "empty"
has_normal(fields) == Len(fields) >= 3

\* C12: a face line of 3 or 4 corners is accepted only if its corners agree
\* on the presence of a texture-coordinate index and agree on the presence
\* of a normal index; a line whose corners disagree stores no face and the
\* parse does not go on.
C12_CornersAgree ==
    [][\A line \in FaceLines :
          (ReadLine(line) /\ Len(line.toks) \in {3, 4} /\ pc' = "parsing")
              => \A c, e \in 1..Len(line.toks) :
                     /\ has_texture(line.toks[c]) <=> has_texture(line.toks[e])
                     /\ has_normal(line.toks[c]) <=> has_normal(line.toks[e])]_vars

\* C13: a face line of five or more corners is not accepted: the parse does
\* not go on past it with faces built from its first corners.
C13_NoNgon ==
    [][\A line \in FaceLines :
          (ReadLine(line) /\ Len(line.toks) >= 5)
              => /\ pc' # "parsing"
                 /\ faces' = <<>>]_vars

\* C20: every stored group and every stored object has start < finish, and
\* at end of input the open group (object) is appended if and only if it is
\* non-empty.
C20_NonEmptySegments ==
    [][/\ \A i \in 1..Len(groups') : groups'[i].start < groups'[i].finish
       /\ \A i \in 1..Len(objects') : objects'[i].start < objects'[i].finish
       /\ EndOfInput
              => /\ Len(groups') = Len(groups) + 1
                     <=> current_group.start # current_group.finish
                 /\ Len(objects') = Len(objects) + 1
                     <=> \/ current_object.start # current_object.finish
                         \/ current_group.start # current_group.finish]_vars

\* the triangle normal of the k-th triangle of the meshlet m, from the
\* positions of the source vertices its local indices stand for
member_normal(m, k) ==
    triangle_normal(position_of(m.vertices[m.triangles[k][1] + 1]),
                    position_of(m.vertices[m.triangles[k][2] + 1]),
                    position_of(m.vertices[m.triangles[k][3] + 1]))

\* C14: every meshlet build_meshlets has produced holds at most
\* TRIANGLE_COUNT triangles and at most VERTEX_COUNT vertices, and every
\* local index of its first triangle_count triangles is below vertex_count.
C14_MeshletBounds ==
    \A i \in 1..Len(meshlets) :
        LET m == meshlets[i]
        IN  /\ m.triangle_count <= TRIANGLE_COUNT
            /\ m.vertex_count <= VERTEX_COUNT
            /\ \A k \in 1..m.triangle_count : \A c \in 1..3 :
                   /\ 0 <= m.triangles[k][c]
                   /\ m.triangles[k][c] < m.vertex_count

\* build_meshlets returned two meshlets or more, one of them full in both
\* its triangles and its vertices
C14_Witness ==
    /\ mpc = "done"
    /\ Len(meshlets) >= 2
    /\ \E i \in 1..Len(meshlets) :
           /\ meshlets[i].triangle_count = TRIANGLE_COUNT
           /\ meshlets[i].vertex_count = VERTEX_COUNT

\* C15: in every produced meshlet of more than one triangle, the dot product
\* of each member triangle's normal with the meshlet's normalized average
\* normal is at least the clamped cone threshold.
C15_ConeHolds ==
    \A i \in 1..Len(meshlets) :
        LET m == meshlets[i]
        IN  m.triangle_count > 1
                => \A k \in 1..m.triangle_count :
                       ~dot_lt(m.cone.avg, member_normal(m, k),
                               clamp(cone_threshold))

\* a returned meshlet of two triangles or more whose normals differ
C15_Witness ==
    /\ mpc = "done"
    /\ \E i \in 1..Len(meshlets) :
           /\ meshlets[i].triangle_count > 1
           /\ \E k \in 1..meshlets[i].triangle_count :
                  member_normal(meshlets[i], k) # member_normal(meshlets[i], 1)

\* the triangles of a stream, as a set of triples
triangles_of(seq) == {chunk(seq, k) : k \in 1..(Len(seq) \div 3)}

C17_RejectsRemainder ==
    Len(indices) % 3 # 0 => mpc # "done"

\* the least and the greatest coordinate of the points on an axis
observed_min(ps, axis) ==
    CHOOSE x \in {ps[k][axis] : k \in 1..Len(ps)} :
        \A k \in 1..Len(ps) : x <= ps[k][axis]

observed_max(ps, axis) ==
    CHOOSE x \in {ps[k][axis] : k \in 1..Len(ps)} :
        \A k \in 1..Len(ps) : x >= ps[k][axis]

\* C18: on a non-empty point sequence the returned center is, on each axis,
\* the midpoint of the least and the greatest coordinate of the points, and
\* the returned radius is the greatest distance from that center to a point.
C18_BoxCenter ==
    (sphere # <<>> /\ points # <<>>)
        => LET center == [axis \in 1..3 |->
                             midpoint(observed_min(points, axis),
                                      observed_max(points, axis))]
           IN  /\ sphere[1].center = center
               /\ \A k \in 1..Len(points) :
                      distance2(points[k], center) <= sphere[1].radius2
               /\ \E k \in 1..Len(points) :
                      distance2(points[k], center) = sphere[1].radius2

\* C19: every point given lies inside the returned sphere: its distance to
\* the returned center is at most the returned radius; and the bounding
\* sphere of every produced meshlet contains the position of every corner
\* of the meshlet's triangles.
C19_Contains ==
    /\ (sphere # <<>> /\ points # <<>>)
           => \A k \in 1..Len(points) :
                  distance2(points[k], sphere[1].center) <= sphere[1].radius2
    /\ \A i \in 1..Len(meshlets) :
           LET m == meshlets[i]
           IN  \A k \in 1..m.triangle_count : \A c \in 1..3 :
                   distance2(position_of(m.vertices[m.triangles[k][c] + 1]),
                             m.bounding.center) <= m.bounding.radius2

\* a sphere returned for points at different distances from its center,
\* the farthest of them not the last
C19_Witness ==
    /\ sphere # <<>>
    /\ Len(points) >= 2
    /\ distance2(points[Len(points)], sphere[1].center) < sphere[1].radius2

\* the Material Identity of the group each emitted record comes from, in the
\* order of the traversal
owners ==
    concat([k \in 1..Len(group_visits) |->
               [c \in 1..(3 * (group_visits[k].group.finish
                                 - group_visits[k].group.start)) |->
                   group_visits[k].ident]])

members(m) == {m.vertices[k] : k \in 1..m.vertex_count}

\* the normals of the triangles the meshlet m holds
member_normals(m) == [k \in 1..m.triangle_count |-> member_normal(m, k)]

\* the triangle on the source vertices `face` does not fit the meshlet m:
\* it would exceed TRIANGLE_COUNT triangles, or VERTEX_COUNT vertices, or
\* the cone test fails on the normals of m extended by the triangle's
no_fit(m, face) ==
    \/ m.triangle_count + 1 > TRIANGLE_COUNT
    \/ Cardinality(members(m) \cup {face[1], face[2], face[3]})
           > VERTEX_COUNT
    \/ ~check_cone(Append(member_normals(m),
                          triangle_normal(position_of(face[1]),
                                          position_of(face[2]),
                                          position_of(face[3]))),
                   clamp(cone_threshold))

\* the source vertices of the k-th triangle of the meshlet m
member_face(m, k) == [c \in 1..3 |-> m.vertices[m.triangles[k][c] + 1]]

\* C22: an iteration of build_meshlets that adds a triangle flushes the
\* in-progress meshlet first if and only if the triangle does not fit it
\* (it would exceed TRIANGLE_COUNT triangles, or VERTEX_COUNT vertices, or
\* fail the cone test on the extended normals); and the first triangle of
\* every produced meshlet does not fit the meshlet produced before it.
C22_FlushIff ==
    /\ [][(AddFace /\ mpc' = "loop")
             => (Len(meshlets') = Len(meshlets) + 1
                    <=> no_fit(meshlet,
                               SubSeq(indices, 3 * next_face + 1,
                                      3 * next_face + 3)))]_vars
    /\ [](\A i \in 2..Len(meshlets) :
              meshlets[i].triangle_count > 0
                  => no_fit(meshlets[i - 1], member_face(meshlets[i], 1)))

\* two meshlets were produced, the first one flushed with room left for
\* the triangle and for its vertices
C22_Witness ==
    /\ mpc = "done"
    /\ Len(meshlets) >= 2
    /\ meshlets[1].triangle_count >= 1
    /\ meshlets[1].triangle_count < TRIANGLE_COUNT
    /\ meshlets[2].triangle_count >= 1
    /\ Cardinality(members(meshlets[1])
                      \cup {member_face(meshlets[2], 1)[c] : c \in 1..3})
           <= VERTEX_COUNT

\* C23: every meshlet build_meshlets appends, at a flush or at the end of
\* the input, holds at least one triangle; an empty index buffer yields no
\* meshlet.
C23_NoEmptyMeshlet ==
    /\ \A i \in 1..Len(meshlets) : meshlets[i].triangle_count >= 1
    /\ (mpc = "done" /\ indices = <<>>) => meshlets = <<>>

\* the triangles of the meshlet m, each as its three source vertices
member_faces(m) == [k \in 1..m.triangle_count |-> member_face(m, k)]

\* C24: the local triangles of the returned meshlets, mapped through each
\* meshlet's vertex-index list and concatenated in meshlet order, are the
\* triangles of the index buffer in their order; the first vertex_count
\* entries of a meshlet's vertex-index list are pairwise distinct source
\* vertices, in the order its triangles first name them.
C24_Roundtrip ==
    mpc = "done"
        => /\ concat([i \in 1..Len(meshlets) |-> member_faces(meshlets[i])])
                  = [k \in 1..(Len(indices) \div 3) |-> chunk(indices, k)]
           /\ \A i \in 1..Len(meshlets) :
                  LET m == meshlets[i]
                  IN  [k \in 1..m.vertex_count |-> m.vertices[k]]
                          = first_seen(concat(member_faces(m)))

\* two meshlets or more were returned, one of them with two triangles that
\* share a vertex
C24_Witness ==
    /\ mpc = "done"
    /\ Len(indices) % 3 = 0
    /\ Len(meshlets) >= 2
    /\ \E i \in 1..Len(meshlets) :
           /\ meshlets[i].triangle_count >= 2
           /\ meshlets[i].vertex_count < 3 * meshlets[i].triangle_count

share(t, u) == \E c, d \in 1..3 : t[c] = u[d]

\* the triangles of `all` joined to a triangle of `set` by a chain of
\* triangles, each sharing a vertex with the next
RECURSIVE component(_, _)
component(set, all) ==
    LET more == {t \in all : \E u \in set : share(t, u)}
    IN  IF more \subseteq set THEN set ELSE component(set \cup more, all)

C27_Degenerate ==
    (\A k \in 1..Len(indices) : indices[k] < Len(VertexBuffer))
        => mpc # "panic"

\* C28: after a successful parse the color array is empty or holds one
\* entry for each position.
C28_UniformColors ==
    pc = "parsed"
        => \/ vertex_colors = <<>>
           \/ Len(vertex_colors) = Len(verticies)

\* C29: material use is counted per declared group: once a `g` line has
\* been accepted the open group has no material use, so the usemtl line
\* that follows it is accepted; and a usemtl line read while the open group
\* has no material use is accepted.
C29_PerGroup ==
    [][\A line \in GroupingLines :
          ReadLine(line)
              => /\ (line.kind = "g" /\ pc' = "parsing")
                        => ~IsSome(current_group'.mtl)
                 /\ (line.kind = "usemtl" /\ ~IsSome(current_group.mtl))
                        => pc' = "parsing"]_vars

\* the vertices of the next triangle that have no slot in the in-progress
\* meshlet, one for each corner
additional ==
    LET new(c) == IF contained[indices[3 * next_face + c] + 1] = 0 - 1
                  THEN 1 ELSE 0
    IN  new(1) + new(2) + new(3)

\* C30: with capacities of at most 255, the 8-bit counters of
\* build_meshlets do not overflow: the sum vertex_count +
\* additional_vertices of the capacity test is at most 255 in every
\* iteration, the counters of every meshlet are at most 255 and so is
\* every local slot index.
C30_NoOverflow ==
    /\ [][(AddFace /\ VERTEX_COUNT <= U8_MAX /\ TRIANGLE_COUNT <= U8_MAX)
             => meshlet.vertex_count + additional <= U8_MAX]_vars
    /\ [](\A m \in {meshlet} \cup {meshlets[i] : i \in 1..Len(meshlets)} :
              /\ m.vertex_count <= U8_MAX
              /\ m.triangle_count <= U8_MAX
              /\ \A k \in 1..m.triangle_count :
                     \A c \in 1..3 : m.triangles[k][c] <= U8_MAX)

=============================================================================
